---- MODULE Spec2Model ----
(***************************************************************************)
(* mdviqure: reduce an MP4 to a target size.  main validates --size,       *)
(* reduce_video probes the duration with ffprobe, compute_video_bitrate    *)
(* derives the video bitrate, and ffmpeg is run with it.                   *)
(*                                                                         *)
(* u64 and f64 values do not fit 32-bit integers, so both are modelled     *)
(* exactly on little-endian limb sequences (base 2^15): a u64 is           *)
(* a natural below 2^64, an f64 is a sign, a significand below 2^53 and a  *)
(* binary exponent, with IEEE-754 round-to-nearest-even, infinities, NaN   *)
(* and subnormals.                                                         *)
(***************************************************************************)
EXTENDS Integers, Sequences, FiniteSets, TLC

----------------------------------------------------------------------------
(* Natural numbers of arbitrary size: a sequence of limbs, least           *)
(* significant first, no leading zero limb; <<>> is 0.                     *)

LimbBits == 15
Base == 32768

Pow2Small(k) == IF k = 0 THEN 1 ELSE IF k = 1 THEN 2 ELSE IF k = 2 THEN 4
    ELSE IF k = 3 THEN 8 ELSE IF k = 4 THEN 16 ELSE IF k = 5 THEN 32
    ELSE IF k = 6 THEN 64 ELSE IF k = 7 THEN 128 ELSE IF k = 8 THEN 256
    ELSE IF k = 9 THEN 512 ELSE IF k = 10 THEN 1024 ELSE IF k = 11 THEN 2048
    ELSE IF k = 12 THEN 4096 ELSE IF k = 13 THEN 8192 ELSE IF k = 14 THEN 16384
    ELSE 32768

MaxInt(a, b) == IF a >= b THEN a ELSE b
MinInt(a, b) == IF a <= b THEN a ELSE b

(* F(x) with x taken by value.  An operator's argument is an expression,   *)
(* evaluated again at every use of the parameter; the operators below take *)
(* their operands through Let, so that each is computed once.              *)
Let(x, F(_)) == CHOOSE r \in {F(v) : v \in {x}} : TRUE
Let2(x, y, F(_, _)) == CHOOSE r \in {F(v, w) : v \in {x}, w \in {y}} : TRUE

MaxOf(S) == Let(S, LAMBDA T : CHOOSE i \in T : \A j \in T : j <= i)
MinOf(S) == Let(S, LAMBDA T : CHOOSE i \in T : \A j \in T : i <= j)

\* drop leading zero limbs
BigNorm(a) ==
    Let(a, LAMBDA x :
    Let({i \in 1..Len(x) : x[i] # 0}, LAMBDA nz :
        IF nz = {} THEN <<>> ELSE SubSeq(x, 1, MaxOf(nz))))

Limb(a, i) == IF i >= 1 /\ i <= Len(a) THEN a[i] ELSE 0

RECURSIVE BigFromInt(_)
BigFromInt(n) == IF n = 0 THEN <<>> ELSE <<n % Base>> \o BigFromInt(n \div Base)

BigIsZero(a) == Len(a) = 0

\* -1, 0 or 1 as a < b, a = b, a > b
BigCmp(a, b) ==
    Let2(a, b, LAMBDA x, y :
        IF Len(x) # Len(y) THEN (IF Len(x) < Len(y) THEN -1 ELSE 1)
        ELSE Let({i \in 1..Len(x) : x[i] # y[i]}, LAMBDA diff :
                 IF diff = {} THEN 0
                 ELSE Let(MaxOf(diff), LAMBDA top : IF x[top] < y[top] THEN -1 ELSE 1)))

BigLe(a, b) == BigCmp(a, b) <= 0
BigLt(a, b) == BigCmp(a, b) < 0

(* The limb loops below run over an index range lo..hi with a carry; each  *)
(* splits its range in two so that the nesting stays logarithmic.          *)

\* limbs lo..hi of a + b with carry c in: [s, c]
RECURSIVE AddRange(_, _, _, _, _)
AddRange(a, b, lo, hi, c) ==
    IF lo = hi
    THEN Let(Limb(a, lo) + Limb(b, lo) + c, LAMBDA t :
             [s |-> <<t % Base>>, c |-> t \div Base])
    ELSE Let((lo + hi) \div 2, LAMBDA mid :
         Let(AddRange(a, b, lo, mid, c), LAMBDA l :
         Let(AddRange(a, b, mid + 1, hi, l.c), LAMBDA h :
             [s |-> l.s \o h.s, c |-> h.c])))

BigAdd(a, b) ==
    Let2(a, b, LAMBDA x, y :
        IF Len(x) = 0 THEN y
        ELSE IF Len(y) = 0 THEN x
        ELSE Let(AddRange(x, y, 1, MaxInt(Len(x), Len(y)), 0), LAMBDA r :
                 IF r.c = 0 THEN r.s ELSE r.s \o <<r.c>>))

\* limbs lo..hi of a - b with borrow c in: [s, c]
RECURSIVE SubRange(_, _, _, _, _)
SubRange(a, b, lo, hi, c) ==
    IF lo = hi
    THEN Let(Limb(a, lo) - Limb(b, lo) - c, LAMBDA t :
             [s |-> <<(t + Base) % Base>>, c |-> IF t < 0 THEN 1 ELSE 0])
    ELSE Let((lo + hi) \div 2, LAMBDA mid :
         Let(SubRange(a, b, lo, mid, c), LAMBDA l :
         Let(SubRange(a, b, mid + 1, hi, l.c), LAMBDA h :
             [s |-> l.s \o h.s, c |-> h.c])))

\* a - b for a >= b
BigSub(a, b) ==
    Let2(a, b, LAMBDA x, y :
        IF Len(x) = 0 THEN <<>> ELSE BigNorm(SubRange(x, y, 1, Len(x), 0).s))

\* limbs lo..hi of a * k with carry c in: [s, c]
RECURSIVE MulSmallRange(_, _, _, _, _)
MulSmallRange(a, k, lo, hi, c) ==
    IF lo = hi
    THEN Let(a[lo] * k + c, LAMBDA t :
             [s |-> <<t % Base>>, c |-> t \div Base])
    ELSE Let((lo + hi) \div 2, LAMBDA mid :
         Let(MulSmallRange(a, k, lo, mid, c), LAMBDA l :
         Let(MulSmallRange(a, k, mid + 1, hi, l.c), LAMBDA h :
             [s |-> l.s \o h.s, c |-> h.c])))

\* a * k for 0 <= k <= Base
BigMulSmall(a, k) ==
    Let2(a, k, LAMBDA x, n :
        IF n = 0 \/ Len(x) = 0 THEN <<>>
        ELSE Let(MulSmallRange(x, n, 1, Len(x), 0), LAMBDA r : r.s \o BigFromInt(r.c)))

Zeros(n) == [i \in 1..n |-> 0]

BigShiftLimbs(a, n) == Let(a, LAMBDA x : IF Len(x) = 0 THEN x ELSE Zeros(n) \o x)

\* a * (limbs lo..hi of b, in place)
RECURSIVE MulRange(_, _, _, _)
MulRange(a, b, lo, hi) ==
    IF lo = hi THEN BigShiftLimbs(BigMulSmall(a, b[lo]), lo - 1)
    ELSE Let((lo + hi) \div 2, LAMBDA mid :
             BigAdd(MulRange(a, b, lo, mid), MulRange(a, b, mid + 1, hi)))

BigMul(a, b) ==
    Let2(a, b, LAMBDA x, y :
        IF Len(x) = 0 \/ Len(y) = 0 THEN <<>> ELSE MulRange(x, y, 1, Len(y)))

Reverse(s) == Let(s, LAMBDA t : [i \in 1..Len(t) |-> t[Len(t) + 1 - i]])

\* limbs hi down to lo of a divided by k, remainder r in: [q, r], the
\* quotient's limbs most significant first
RECURSIVE DivSmallRange(_, _, _, _, _)
DivSmallRange(a, k, lo, hi, r) ==
    IF lo = hi
    THEN Let(r * Base + a[lo], LAMBDA cur :
             [q |-> <<cur \div k>>, r |-> cur % k])
    ELSE Let((lo + hi) \div 2, LAMBDA mid :
         Let(DivSmallRange(a, k, mid + 1, hi, r), LAMBDA h :
         Let(DivSmallRange(a, k, lo, mid, h.r), LAMBDA l :
             [q |-> h.q \o l.q, r |-> l.r])))

\* floor(a / k) and a mod k for 1 <= k <= Base
BigDivSmall(a, k) ==
    Let2(a, k, LAMBDA x, n :
        IF Len(x) = 0 THEN [q |-> <<>>, r |-> 0]
        ELSE Let(DivSmallRange(x, n, 1, Len(x), 0), LAMBDA d :
                 [q |-> BigNorm(Reverse(d.q)), r |-> d.r]))

\* a * 2^s
BigShl(a, s) ==
    Let(s, LAMBDA n : BigShiftLimbs(BigMulSmall(a, Pow2Small(n % LimbBits)), n \div LimbBits))

\* floor(a / 2^s)
BigShr(a, s) ==
    Let2(a, s, LAMBDA x, n :
        IF n \div LimbBits >= Len(x) THEN <<>>
        ELSE BigDivSmall(SubSeq(x, n \div LimbBits + 1, Len(x)), Pow2Small(n % LimbBits)).q)

\* a mod 2^s
BigLow(a, s) ==
    Let2(a, s, LAMBDA x, n :
        IF n \div LimbBits >= Len(x) THEN x
        ELSE BigNorm(SubSeq(x, 1, n \div LimbBits)
                     \o <<x[n \div LimbBits + 1] % Pow2Small(n % LimbBits)>>))

BigPow2(k) == BigShl(<<1>>, k)

BitLenSmall(x) ==
    IF x = 0 THEN 0 ELSE CHOOSE k \in 1..LimbBits : Pow2Small(k - 1) <= x /\ x < Pow2Small(k)

\* number of significant bits of a (0 for 0)
BigBitLen(a) ==
    Let(a, LAMBDA x :
        IF Len(x) = 0 THEN 0 ELSE (Len(x) - 1) * LimbBits + BitLenSmall(x[Len(x)]))

BigIsOdd(a) == Let(a, LAMBDA x : Len(x) > 0 /\ x[1] % 2 = 1)

\* the digit floor(r / b) for r < b * Base, the top limb of b at least
\* Base / 2: the estimate from the leading limbs is at most 2 too large
QuotDigit(r, b) ==
    Let((Limb(r, Len(b) + 1) * Base + Limb(r, Len(b))) \div b[Len(b)], LAMBDA est :
    Let(MinInt(est, Base - 1), LAMBDA k :
        IF BigLe(BigMulSmall(b, k), r) THEN k
        ELSE IF BigLe(BigMulSmall(b, k - 1), r) THEN k - 1
        ELSE k - 2))

\* limbs hi down to lo of a divided by b, remainder r in: [q, r], the
\* quotient's limbs most significant first
RECURSIVE DivModRange(_, _, _, _, _)
DivModRange(a, b, lo, hi, r) ==
    IF lo = hi
    THEN Let(BigNorm(<<a[lo]>> \o r), LAMBDA cur :
         Let(QuotDigit(cur, b), LAMBDA d :
             [q |-> <<d>>, r |-> BigSub(cur, BigMulSmall(b, d))]))
    ELSE Let((lo + hi) \div 2, LAMBDA mid :
         Let(DivModRange(a, b, mid + 1, hi, r), LAMBDA h :
         Let(DivModRange(a, b, lo, mid, h.r), LAMBDA l :
             [q |-> h.q \o l.q, r |-> l.r])))

\* a and b are scaled by 2^sh so that the top limb of b is at least Base / 2
DivModScaled(a, b, sh) ==
    Let2(BigShl(a, sh), BigShl(b, sh), LAMBDA x, y :
    Let(DivModRange(x, y, 1, Len(x), <<>>), LAMBDA d :
        [q |-> BigNorm(Reverse(d.q)), r |-> BigShr(d.r, sh)]))

\* floor(a / b) and a mod b for b > 0
BigDivMod(a, b) ==
    Let2(a, b, LAMBDA x, y :
        IF Len(x) = 0 THEN [q |-> <<>>, r |-> <<>>]
        ELSE DivModScaled(x, y, LimbBits - BitLenSmall(y[Len(y)])))

\* 10^k by repeated squaring
RECURSIVE BigPow10(_)
BigPow10(k) ==
    Let(k, LAMBDA n :
        IF n = 0 THEN <<1>>
        ELSE Let(BigPow10(n \div 2), LAMBDA h :
                 IF n % 2 = 1 THEN BigMulSmall(BigMul(h, h), 10) ELSE BigMul(h, h)))

----------------------------------------------------------------------------
(* u64: naturals below 2^64.  `a * b` panics when overflow checks are on   *)
(* (debug profile) and wraps modulo 2^64 when they are off (release).      *)

U64Bits == 64
U64Max == BigSub(BigPow2(U64Bits), <<1>>)
IsU64(a) == BigLe(a, U64Max)

U64Mul(overflow_checks, a, b) ==
    Let(BigMul(a, b), LAMBDA p :
        IF IsU64(p) THEN [ok |-> TRUE, val |-> p]
        ELSE IF overflow_checks THEN [ok |-> FALSE, val |-> <<>>]
        ELSE [ok |-> TRUE, val |-> BigLow(p, U64Bits)])

\* u64 / small constant
U64DivSmall(a, k) == BigDivSmall(a, k).q

----------------------------------------------------------------------------
(* f64: [k, s, m, e].  k = "fin": the value (-1)^s * m * 2^e with m = 0    *)
(* (and e = 0), or 2^52 <= m < 2^53 and -1074 <= e <= 971 (normal), or     *)
(* 0 < m < 2^52 and e = -1074 (subnormal).  k = "inf": signed infinity.    *)
(* k = "nan": NaN.                                                         *)

MantBits == 53
MinExp == -1074
MaxTopExp == 1023

F64Zero(s) == [k |-> "fin", s |-> s, m |-> <<>>, e |-> 0]
F64Inf(s) == [k |-> "inf", s |-> s, m |-> <<>>, e |-> 0]
F64NaN == [k |-> "nan", s |-> 0, m |-> <<>>, e |-> 0]

F64IsZero(a) == Let(a, LAMBDA x : x.k = "fin" /\ BigIsZero(x.m))
Xor(s, t) == IF s = t THEN 0 ELSE 1

(* Rounding to nearest, ties to even, in steps: the quotient q with a      *)
(* sticky flag for a remainder, the exponent E of the result's last bit,   *)
(* the bits dropped below it, the increment, and the carry out of it.      *)

\* m * 2^E with m below 2^53: zero, a finite value, or an overflow
RoundFinish(s, m, E) ==
    Let2(m, E, LAMBDA v, x :
        IF BigIsZero(v) THEN F64Zero(s)
        ELSE IF x + BigBitLen(v) - 1 > MaxTopExp THEN F64Inf(s)
        ELSE [k |-> "fin", s |-> s, m |-> v, e |-> x])

RoundCarry(s, m, E) ==
    Let(m, LAMBDA v :
        IF BigBitLen(v) > MantBits THEN RoundFinish(s, BigShr(v, 1), E + 1)
        ELSE RoundFinish(s, v, E))

\* c compares the dropped bits with one half of the last kept bit
RoundHalf(s, kept, c, sticky, E) ==
    Let2(kept, c, LAMBDA v, half :
        IF half > 0 \/ (half = 0 /\ (sticky \/ BigIsOdd(v)))
        THEN RoundCarry(s, BigAdd(v, <<1>>), E)
        ELSE RoundFinish(s, v, E))

RoundAt(s, q, sticky, drop, E) ==
    Let2(drop, E, LAMBDA n, x :
        IF n <= 0 THEN RoundFinish(s, BigShl(q, 0 - n), x)
        ELSE RoundHalf(s, BigShr(q, n), BigCmp(BigLow(q, n), BigPow2(n - 1)), sticky, x))

\* (q + a fraction, nonzero iff sticky) * 2^e0
RoundQ(s, q, sticky, e0) ==
    Let2(q, e0, LAMBDA v, x :
    Let(MaxInt(x + BigBitLen(v) - MantBits, MinExp), LAMBDA E :
        RoundAt(s, v, sticky, E - x, E)))

RoundDivided(s, dm, e0) == Let(dm, LAMBDA d : RoundQ(s, d.q, ~BigIsZero(d.r), e0))

\* num / den is taken with sh extra bits, so that the quotient has more than 53
RoundRatio(s, num, den, e2, sh) ==
    Let(sh, LAMBDA n : RoundDivided(s, BigDivMod(BigShl(num, n), den), e2 - n))

\* (-1)^s * (num / den) * 2^e2 rounded to the nearest f64, ties to even
RoundToF64(s, num, den, e2) ==
    Let2(num, den, LAMBDA n, d :
    Let2(s, e2, LAMBDA sg, x :
        IF BigIsZero(n) THEN F64Zero(sg)
        ELSE IF d = <<1>> THEN RoundQ(sg, n, FALSE, x)
        ELSE RoundRatio(sg, n, d, x,
                        MaxInt(0, MantBits + 2 + BigBitLen(d) - BigBitLen(n)))))

\* `n as f64` for a u64 n
F64FromU64(n) == RoundToF64(0, n, <<1>>, 0)

\* a / b
F64Div(a, b) ==
    Let2(a, b, LAMBDA x, y :
        IF x.k = "nan" \/ y.k = "nan" THEN F64NaN
        ELSE IF x.k = "inf" THEN (IF y.k = "inf" THEN F64NaN ELSE F64Inf(Xor(x.s, y.s)))
        ELSE IF y.k = "inf" THEN F64Zero(Xor(x.s, y.s))
        ELSE IF F64IsZero(y) THEN (IF F64IsZero(x) THEN F64NaN ELSE F64Inf(Xor(x.s, y.s)))
        ELSE RoundToF64(Xor(x.s, y.s), x.m, y.m, x.e - y.e))

\* x - y for finite nonzero x and y: both are brought to the exponent emin
SubAligned(x, y, emin) ==
    Let2(BigShl(x.m, x.e - emin), BigShl(y.m, y.e - emin), LAMBDA A, B :
    Let(BigCmp(A, B), LAMBDA c :
        IF x.s # y.s THEN RoundToF64(x.s, BigAdd(A, B), <<1>>, emin)
        ELSE IF c = 0 THEN F64Zero(0)
        ELSE IF c > 0 THEN RoundToF64(x.s, BigSub(A, B), <<1>>, emin)
        ELSE RoundToF64(1 - x.s, BigSub(B, A), <<1>>, emin)))

\* a - b
F64Sub(a, b) ==
    Let2(a, b, LAMBDA x, y :
        IF x.k = "nan" \/ y.k = "nan" THEN F64NaN
        ELSE IF x.k = "inf" THEN (IF y.k = "inf" /\ x.s = y.s THEN F64NaN ELSE x)
        ELSE IF y.k = "inf" THEN F64Inf(1 - y.s)
        ELSE IF F64IsZero(y) THEN (IF F64IsZero(x) /\ x.s = y.s THEN F64Zero(0) ELSE x)
        ELSE IF F64IsZero(x) THEN [y EXCEPT !.s = 1 - y.s]
        ELSE Let(MinInt(x.e, y.e), LAMBDA emin : SubAligned(x, y, emin)))

\* a < b (false when either is NaN)
F64Lt(a, b) ==
    Let2(a, b, LAMBDA x, y :
        IF x.k = "nan" \/ y.k = "nan" THEN FALSE
        ELSE IF F64IsZero(x) /\ F64IsZero(y) THEN FALSE
        ELSE IF x.s # y.s THEN x.s = 1
        ELSE IF x.k = "inf" \/ y.k = "inf"
             THEN (IF x.s = 0 THEN x.k = "fin" ELSE y.k = "fin")
        ELSE IF F64IsZero(x) THEN x.s = 0
        ELSE IF F64IsZero(y) THEN x.s = 1
        ELSE Let(MinInt(x.e, y.e), LAMBDA emin :
             Let(BigCmp(BigShl(x.m, x.e - emin), BigShl(y.m, y.e - emin)), LAMBDA c :
                 IF x.s = 0 THEN c < 0 ELSE c > 0)))

\* `a as u64`: truncates toward zero, saturates, NaN gives 0
F64ToU64(a) ==
    Let(a, LAMBDA x :
        IF x.k = "nan" THEN <<>>
        ELSE IF x.s = 1 THEN <<>>
        ELSE IF x.k = "inf" THEN U64Max
        ELSE Let(IF x.e >= 0 THEN BigShl(x.m, x.e) ELSE BigShr(x.m, 0 - x.e), LAMBDA t :
                 IF IsU64(t) THEN t ELSE U64Max))

----------------------------------------------------------------------------
(* Text: a string is a sequence of one-character strings.                  *)

Digits == <<"0", "1", "2", "3", "4", "5", "6", "7", "8", "9">>
IsDigit(c) == \E i \in 1..10 : Digits[i] = c
DigitVal(c) == (CHOOSE i \in 1..10 : Digits[i] = c) - 1
IsSpace(c) == c \in {" ", "\n", "\t", "\r"}

\* the decimal digits of n, most significant first: `{}` of a nonzero u64
RECURSIVE BigToDecFrom(_)
BigToDecFrom(n) ==
    Let(n, LAMBDA x :
        IF BigIsZero(x) THEN <<>>
        ELSE Let(BigDivSmall(x, 10), LAMBDA d : BigToDecFrom(d.q) \o <<Digits[d.r + 1]>>))

\* `{}` of a u64
BigToDec(n) == Let(n, LAMBDA x : IF BigIsZero(x) THEN <<"0">> ELSE BigToDecFrom(x))

\* the natural number that digits lo..hi of s denote
RECURSIVE DecRange(_, _, _)
DecRange(s, lo, hi) ==
    IF lo = hi THEN BigFromInt(DigitVal(s[lo]))
    ELSE Let((lo + hi) \div 2, LAMBDA mid :
             BigAdd(BigMul(DecRange(s, lo, mid), BigPow10(hi - mid)), DecRange(s, mid + 1, hi)))

DecToBig(s) == Let(s, LAMBDA t : IF Len(t) = 0 THEN <<>> ELSE DecRange(t, 1, Len(t)))

\* str::trim: drop leading and trailing whitespace
Trim(s) ==
    Let(s, LAMBDA t :
    Let({i \in 1..Len(t) : ~IsSpace(t[i])}, LAMBDA keep :
        IF keep = {} THEN <<>> ELSE SubSeq(t, MinOf(keep), MaxOf(keep))))

ToLower(c) ==
    IF c = "I" THEN "i" ELSE IF c = "N" THEN "n" ELSE IF c = "F" THEN "f"
    ELSE IF c = "T" THEN "t" ELSE IF c = "Y" THEN "y" ELSE IF c = "A" THEN "a"
    ELSE c

\* length of the run of digits of s that starts at index i
DigitRun(s, i) ==
    Let2(s, i, LAMBDA t, n :
    Let({j \in n..Len(t) : ~IsDigit(t[j])}, LAMBDA stop :
        IF stop = {} THEN Len(t) + 1 - n ELSE MinOf(stop) - n))

\* a nonzero decimal d * 10^e is above every finite f64 when e > 309, and
\* below half the least subnormal when d has n digits and e + n < -324
DecimalInfExp == 309
DecimalZeroExp == -324

ParseError == [ok |-> FALSE, val |-> F64NaN]

\* the decimal mant * 10^e10, mant written with n digits, correctly rounded
DecimalValue(sg, mant, n, e10) ==
    Let2(mant, e10, LAMBDA m, e :
        IF BigIsZero(m) THEN [ok |-> TRUE, val |-> F64Zero(sg)]
        ELSE IF e > DecimalInfExp THEN [ok |-> TRUE, val |-> F64Inf(sg)]
        ELSE IF e + n < DecimalZeroExp THEN [ok |-> TRUE, val |-> F64Zero(sg)]
        ELSE IF e >= 0
             THEN [ok |-> TRUE, val |-> RoundToF64(sg, BigMul(m, BigPow10(e)), <<1>>, 0)]
             ELSE [ok |-> TRUE, val |-> RoundToF64(sg, m, BigPow10(0 - e), 0)])

\* an exponent of 32768 or more is far outside the f64 range already
ExpValue(e) ==
    Let(e, LAMBDA x : IF Len(x) = 0 THEN 0 ELSE IF Len(x) = 1 THEN x[1] ELSE Base)

\* ed: the exponent's digits
ParseExpDigits(sg, digits, nFrac, neg, ed) ==
    Let2(digits, ed, LAMBDA ds, es :
        IF Len(es) = 0 \/ DigitRun(es, 1) # Len(es) THEN ParseError
        ELSE Let(ExpValue(DecToBig(es)), LAMBDA x :
                 DecimalValue(sg, DecToBig(ds), Len(ds), (IF neg THEN 0 - x ELSE x) - nFrac)))

\* ex: the text after "e"
ParseExp(sg, digits, nFrac, ex) ==
    Let(ex, LAMBDA x :
        IF Len(x) > 0 /\ x[1] \in {"+", "-"}
        THEN ParseExpDigits(sg, digits, nFrac, x[1] = "-", SubSeq(x, 2, Len(x)))
        ELSE ParseExpDigits(sg, digits, nFrac, FALSE, x))

\* nInt digits, then, from fracAt, nFrac digits after a "." if there is one
ParseMantissa(sg, body, nInt, fracAt, nFrac) ==
    Let2(fracAt, nFrac, LAMBDA at, n :
        IF nInt + n = 0 THEN ParseError
        ELSE IF at + n = Len(body) + 1
        THEN DecimalValue(sg, DecToBig(SubSeq(body, 1, nInt) \o SubSeq(body, at, Len(body))),
                          nInt + n, 0 - n)
        ELSE IF body[at + n] \in {"e", "E"}
        THEN ParseExp(sg, SubSeq(body, 1, nInt) \o SubSeq(body, at, at + n - 1),
                      n, SubSeq(body, at + n + 1, Len(body)))
        ELSE ParseError)

ParseNumber(sg, body, nInt) ==
    Let(nInt, LAMBDA n :
        IF n + 1 <= Len(body) /\ body[n + 1] = "."
        THEN ParseMantissa(sg, body, n, n + 2, DigitRun(body, n + 2))
        ELSE ParseMantissa(sg, body, n, n + 1, 0))

ParseUnsigned(sg, body, low) ==
    Let(low, LAMBDA l :
        IF l = <<"i", "n", "f">> \/ l = <<"i", "n", "f", "i", "n", "i", "t", "y">>
        THEN [ok |-> TRUE, val |-> F64Inf(sg)]
        ELSE IF l = <<"n", "a", "n">> THEN [ok |-> TRUE, val |-> F64NaN]
        ELSE ParseNumber(sg, body, DigitRun(body, 1)))

ParseSigned(sg, body) ==
    Let2(sg, body, LAMBDA s, b :
        ParseUnsigned(s, b, [i \in 1..Len(b) |-> ToLower(b[i])]))

\* <f64 as FromStr>::from_str:
\*   Sign? ( "inf" | "infinity" | "nan" | Number ), letters in any case,
\*   Number ::= ( Digit+ | Digit+ "." Digit* | Digit* "." Digit+ ) Exp?
\*   Exp    ::= ("e" | "E") Sign? Digit+
\* The value is the decimal correctly rounded.
ParseF64(str) ==
    Let(str, LAMBDA t :
        IF Len(t) > 0 /\ t[1] \in {"+", "-"}
        THEN ParseSigned(IF t[1] = "-" THEN 1 ELSE 0, SubSeq(t, 2, Len(t)))
        ELSE ParseSigned(0, t))

----------------------------------------------------------------------------
(* The bitrate calculation.                                                *)

MinVideoBitrate == 100000

\* the last lines of compute_video_bitrate: the minimum, and `as u64`
ClampToMinimum(video_bitrate, min_video_bitrate) ==
    Let2(video_bitrate, min_video_bitrate, LAMBDA v, min :
        IF F64Lt(v, min) THEN F64ToU64(min) ELSE F64ToU64(v))

\* the calculation without the audio share
BitrateFromBits_NoAudio(bits, duration, audio_bitrate) ==
    Let(bits, LAMBDA b :
        IF ~b.ok THEN [ok |-> FALSE, val |-> <<>>]
        ELSE [ok |-> TRUE,
              val |-> ClampToMinimum(F64Div(F64FromU64(b.val), duration),
                                     F64FromU64(BigFromInt(MinVideoBitrate)))])

\* compute_video_bitrate once `target_bytes * 8` has given bits
BitrateFromBits(bits, duration, audio_bitrate) ==
    Let(bits, LAMBDA b :
        IF ~b.ok THEN [ok |-> FALSE, val |-> <<>>]
        ELSE [ok |-> TRUE,
              val |-> ClampToMinimum(
                          F64Sub(F64Div(F64FromU64(b.val), duration),   \* total_bitrate
                                 F64FromU64(audio_bitrate)),            \* video_bitrate
                          F64FromU64(BigFromInt(MinVideoBitrate)))])

\* [ok, val]: ok = FALSE when `target_bytes * 8` panics
compute_video_bitrate(overflow_checks, duration, target_bytes, audio_bitrate) ==
    BitrateFromBits(U64Mul(overflow_checks, target_bytes, <<8>>), duration, audio_bitrate)

----------------------------------------------------------------------------
(* The run of the program, from the return of Args::parse to exit.         *)

VARIABLES
    overflow_checks,    \* build profile: TRUE panics on u64 overflow, FALSE wraps
    size,               \* args.size
    pc,                 \* "main", "probing", "calculate", "encoding", "exit"
    running,            \* the child processes now running
    probe_calls,        \* times ffprobe was launched
    encode_calls,       \* times ffmpeg was launched
    output,             \* what ffprobe returned: [success, stdout] (optional)
    duration,           \* Ok(duration) of get_video_duration (optional)
    audio_bitrate,      \* reduce_video's audio_bitrate (optional)
    video_bitrate,      \* reduce_video's video_bitrate (optional)
    ffmpeg_args,        \* [bv, ba]: the -b:v and -b:a arguments (optional)
    status,             \* ffmpeg's exit status: "success", "failure" (optional)
    exit_code,          \* the process's exit code (optional)
    error,              \* the error main returned (optional)
    steps,              \* the steps taken so far, in order
    fn                  \* a direct call of compute_video_bitrate: inputs and results

runVars == <<overflow_checks, size, pc, running, probe_calls, encode_calls, output,
             duration, audio_bitrate, video_bitrate, ffmpeg_args, status, exit_code,
             error, steps>>
vars == <<runVars, fn>>

\* a value that may be absent: None, or Some(x), read back as o[1]
None == <<>>
Some(x) == <<x>>
IsSome(o) == Len(o) = 1

Chars(n) == BigToDec(BigFromInt(n))

\* what ffprobe may print on stdout
Stdouts == {
    <<"1", "0", "0", ".", "0", "0", "0", "0", "0", "0", "\n">>,
    <<"1", "0", "0", "0", "0", ".", "0", "0", "0", "0", "0", "0", "\n">>,
    <<"1", "2", "3", ".", "4", "5", "6", "\n">>,
    <<"2", "7", "9", "6", ".", "1", "6", "5", "3", "8", "4", "4", "6", "1", "5", "4", "0", "7", "\n">>,
    <<"0", ".", "0", "4", "\n">>,
    <<"1", "e", "-", "3", "0", "0", "\n">>,
    <<"0", ".", "0", "0", "0", "0", "0", "0", "\n">>,
    <<"-", "5", ".", "5", "\n">>,
    <<"i", "n", "f", "\n">>,
    <<"N", "a", "N", "\n">>,
    <<"N", "/", "A", "\n">>,
    <<"1", "2", ".", "5", " ", "s", "\n">>,
    <<>> }

Sizes == {BigFromInt(0), BigFromInt(49), BigFromInt(50), BigFromInt(51),
          BigFromInt(100), BigFromInt(101), U64Max}

AudioBitrate == 128000
ExitFailure == 1
ExitPanic == 101

Fail(msg) ==
    /\ pc' = "exit"
    /\ exit_code' = Some(ExitFailure)
    /\ error' = Some(msg)

Panic ==
    /\ pc' = "exit"
    /\ exit_code' = Some(ExitPanic)
    /\ error' = Some("panic: arithmetic overflow")

\* main without the check of the size
main_NoValidation ==
    /\ pc = "main"
    /\ \E spawned \in BOOLEAN :
         /\ probe_calls' = probe_calls + 1
         /\ steps' = Append(steps, "probe")
         /\ IF spawned
            THEN /\ pc' = "probing"
                 /\ running' = running \cup {"ffprobe"}
                 /\ UNCHANGED <<exit_code, error>>
            ELSE /\ Fail("ffprobe: No such file or directory")
                 /\ UNCHANGED running
    /\ UNCHANGED <<overflow_checks, size, encode_calls, output, duration, audio_bitrate,
                   video_bitrate, ffmpeg_args, status, fn>>

\* main up to the launch of ffprobe in get_video_duration
main ==
    /\ pc = "main"
    /\ IF size # BigFromInt(50) /\ size # BigFromInt(100)
       THEN /\ Fail("Target size must be either 50 or 100 MB.")
            /\ UNCHANGED <<running, probe_calls, steps>>
       ELSE \E spawned \in BOOLEAN :
              /\ probe_calls' = probe_calls + 1
              /\ steps' = Append(steps, "probe")
              /\ IF spawned
                 THEN /\ pc' = "probing"
                      /\ running' = running \cup {"ffprobe"}
                      /\ UNCHANGED <<exit_code, error>>
                 ELSE /\ Fail("ffprobe: No such file or directory")
                      /\ UNCHANGED running
    /\ UNCHANGED <<overflow_checks, size, encode_calls, output, duration, audio_bitrate,
                   video_bitrate, ffmpeg_args, status, fn>>

\* the checks without the one of ffprobe's status
CheckOutput_IgnoreStatus(success, parsed) ==
    IF ~parsed.ok
    THEN Fail("invalid float literal") /\ UNCHANGED duration
    ELSE /\ duration' = Some(parsed.val)
         /\ pc' = "calculate"
         /\ UNCHANGED <<exit_code, error>>

\* the checks with a second attempt after a failed probe
CheckOutput_Retry(success, parsed) ==
    IF ~success /\ probe_calls < 2
    THEN pc' = "main" /\ UNCHANGED <<duration, exit_code, error>>
    ELSE IF ~success
    THEN Fail("ffprobe failed") /\ UNCHANGED duration
    ELSE IF ~parsed.ok
    THEN Fail("invalid float literal") /\ UNCHANGED duration
    ELSE /\ duration' = Some(parsed.val)
         /\ pc' = "calculate"
         /\ UNCHANGED <<exit_code, error>>

\* get_video_duration's checks of ffprobe's status and output
CheckOutput(success, parsed) ==
    IF ~success
    THEN Fail("ffprobe failed") /\ UNCHANGED duration
    ELSE IF ~parsed.ok
    THEN Fail("invalid float literal") /\ UNCHANGED duration
    ELSE /\ duration' = Some(parsed.val)
         /\ pc' = "calculate"
         /\ UNCHANGED <<exit_code, error>>

\* get_video_duration once ffprobe has exited
get_video_duration ==
    /\ pc = "probing"
    /\ \E success \in BOOLEAN, stdout \in Stdouts :
         /\ output' = Some([success |-> success, stdout |-> stdout])
         /\ running' = running \ {"ffprobe"}
         /\ \E parsed \in {ParseF64(Trim(stdout))} : CheckOutput(success, parsed)
    /\ UNCHANGED <<overflow_checks, size, probe_calls, encode_calls, audio_bitrate,
                   video_bitrate, ffmpeg_args, status, steps, fn>>

\* `target_mb * 1024 * 1024`
TargetBytes(mib) ==
    Let(mib, LAMBDA m :
        IF ~m.ok THEN m ELSE U64Mul(overflow_checks, m.val, BigFromInt(1024)))

\* the argument without the division by 1000
FormatBitrate_Bps(bps) == BigToDec(bps) \o <<"k">>

\* format!("{}k", video_bitrate / 1000)
FormatBitrate(bps) == BigToDec(U64DivSmall(bps, 1000)) \o <<"k">>

\* reduce_video from the computed bitrate to the launch of ffmpeg
LaunchFfmpeg(calc) ==
    IF ~calc.ok
    THEN /\ Panic
         /\ steps' = Append(steps, "calculate")
         /\ UNCHANGED <<running, encode_calls, video_bitrate, ffmpeg_args>>
    ELSE \E spawned \in BOOLEAN :
           /\ video_bitrate' = Some(calc.val)
           /\ encode_calls' = encode_calls + 1
           /\ steps' = steps \o <<"calculate", "encode">>
           /\ ffmpeg_args' = Some([bv |-> FormatBitrate(calc.val),
                                   ba |-> Chars(128) \o <<"k">>])
           /\ IF spawned
              THEN /\ pc' = "encoding"
                   /\ running' = running \cup {"ffmpeg"}
                   /\ UNCHANGED <<exit_code, error>>
              ELSE /\ Fail("ffmpeg: No such file or directory")
                   /\ UNCHANGED running

\* the bitrate for a target size: [ok, val], ok = FALSE after a panic
Calculate(target_bytes) ==
    Let(target_bytes, LAMBDA t :
        IF ~t.ok THEN t
        ELSE compute_video_bitrate(overflow_checks, duration[1], t.val,
                                   BigFromInt(AudioBitrate)))

\* reduce_video from the duration to the launch of ffmpeg
reduce_video ==
    /\ pc = "calculate"
    /\ audio_bitrate' = Some(BigFromInt(AudioBitrate))
    /\ \E calc \in {Calculate(TargetBytes(U64Mul(overflow_checks, size, BigFromInt(1024))))} :
         LaunchFfmpeg(calc)
    /\ UNCHANGED <<overflow_checks, size, probe_calls, output, duration, status, fn>>

\* the end of the run without the check of ffmpeg's status
ffmpeg_exit_IgnoreStatus ==
    /\ pc = "encoding"
    /\ \E success \in BOOLEAN :
         /\ running' = running \ {"ffmpeg"}
         /\ pc' = "exit"
         /\ status' = Some(IF success THEN "success" ELSE "failure")
         /\ exit_code' = Some(0)
         /\ UNCHANGED error
    /\ UNCHANGED <<overflow_checks, size, probe_calls, encode_calls, output, duration,
                   audio_bitrate, video_bitrate, ffmpeg_args, steps, fn>>

\* reduce_video and main once ffmpeg has exited
ffmpeg_exit ==
    /\ pc = "encoding"
    /\ \E success \in BOOLEAN :
         /\ running' = running \ {"ffmpeg"}
         /\ pc' = "exit"
         /\ IF success
            THEN status' = Some("success") /\ exit_code' = Some(0) /\ UNCHANGED error
            ELSE /\ status' = Some("failure")
                 /\ exit_code' = Some(ExitFailure)
                 /\ error' = Some("ffmpeg failed during encoding")
    /\ UNCHANGED <<overflow_checks, size, probe_calls, encode_calls, output, duration,
                   audio_bitrate, video_bitrate, ffmpeg_args, steps, fn>>

FnIdle == [called |-> FALSE]

RunInit ==
    /\ overflow_checks \in BOOLEAN
    /\ size \in Sizes
    /\ pc = "main"
    /\ running = {}
    /\ probe_calls = 0
    /\ encode_calls = 0
    /\ output = None
    /\ duration = None
    /\ audio_bitrate = None
    /\ video_bitrate = None
    /\ ffmpeg_args = None
    /\ status = None
    /\ exit_code = None
    /\ error = None
    /\ steps = <<>>

Init == RunInit /\ fn = FnIdle

Next == main \/ get_video_duration \/ reduce_video \/ ffmpeg_exit

Spec == Init /\ [][Next]_vars

\* a child process that was started exits, and the program then runs on
LiveSpec == Spec /\ WF_vars(Next)

----------------------------------------------------------------------------
(* compute_video_bitrate called directly, as the unit tests call it, on    *)
(* two target sizes a <= b with the same duration and audio bitrate.       *)

MaxPow == 61

Mib(n) == BigShl(BigFromInt(n), 20)

Offsets == {<<>>, <<3>>, BigFromInt(1000000)}

TargetSizes ==
    {<<>>, <<1>>, Mib(50), Mib(100), BigAdd(BigPow2(53), <<3>>), U64Max}
    \cup {BigAdd(BigPow2(j), r) : j \in 57..MaxPow, r \in Offsets}

Larger(a) ==
    {b \in {BigAdd(a, <<1>>), BigAdd(BigShl(a, 1), BigFromInt(1000000)), U64Max} : IsU64(b)}

DurationTexts == {
    <<"1">>,
    <<"1", "0", "0">>,
    <<"1", "0", "0", "0", "0">>,
    <<"2", "7", "9", "6", ".", "1", "6", "5", "3", "8", "4", "4", "6", "1", "5", "4", "0", "7">>,
    <<"1", "e", "-", "3", "0", "0">>,
    <<"i", "n", "f">>,
    <<"0">>,
    <<"-", "1">>,
    <<"N", "a", "N">> }

Durations == {ParseF64(t).val : t \in DurationTexts}

AudioBitrates == {<<>>, <<1>>, BigFromInt(AudioBitrate)}

FnInit ==
    /\ RunInit
    /\ size = BigFromInt(100)
    /\ \E d \in Durations, a \in TargetSizes, audio \in AudioBitrates :
         \E b \in Larger(a) :
           fn = [called |-> FALSE, duration |-> d, a |-> a, b |-> b, audio |-> audio]

\* the two calls
call_compute_video_bitrate ==
    /\ ~fn.called
    /\ fn' = [called |-> TRUE, duration |-> fn.duration, a |-> fn.a, b |-> fn.b,
              audio |-> fn.audio,
              ra |-> compute_video_bitrate(overflow_checks, fn.duration, fn.a, fn.audio),
              rb |-> compute_video_bitrate(overflow_checks, fn.duration, fn.b, fn.audio)]
    /\ UNCHANGED runVars

FnNext == call_compute_video_bitrate

FnSpec == FnInit /\ [][FnNext]_vars

----------------------------------------------------------------------------
(* What the claims are stated with.                                        *)

Floor == BigFromInt(MinVideoBitrate)

\* duration > 0
Positive(d) == F64Lt(F64Zero(0), d)

\* duration <= 0
NonPositive(d) == F64IsZero(d) \/ F64Lt(d, F64Zero(0))

IsPrefix(s, t) == Len(s) <= Len(t) /\ s = SubSeq(t, 1, Len(s))

\* x * d <= y * (1 + 1 / 2^slack) for naturals x, y and an f64 d > 0;
\* slack = -1 asks for x * d <= y
WithinBudget(x, d, y, slack) ==
    LET lhs == BigMul(x, d.m)
        room == IF slack < 0 THEN y ELSE BigAdd(BigShl(y, slack), y)
        up == IF slack < 0 THEN 0 ELSE slack
    IN /\ d.k = "fin"
       /\ IF d.e >= 0
          THEN BigLe(BigShl(lhs, d.e + up), room)
          ELSE BigLe(BigShl(lhs, up), BigShl(room, 0 - d.e))

\* max(floor(target_bytes * 8 / duration) - audio_bitrate, 100000) in exact
\* arithmetic, for a duration > 0
ExactBitrate(d, target_bytes, audio) ==
    LET bits == BigMulSmall(target_bytes, 8)
        total == IF d.k = "inf" THEN <<>>
                 ELSE IF d.e >= 0 THEN BigDivMod(bits, BigShl(d.m, d.e)).q
                 ELSE BigDivMod(BigShl(bits, 0 - d.e), d.m).q
    IN IF BigLt(total, BigAdd(audio, Floor)) THEN Floor ELSE BigSub(total, audio)

\* the same formula in f64 arithmetic on the natural number target_bytes * 8
FloatBitrate(d, target_bytes, audio) ==
    LET total == F64Div(RoundToF64(0, BigMulSmall(target_bytes, 8), <<1>>, 0), d)
        video == F64Sub(total, F64FromU64(audio))
    IN IF F64Lt(video, F64FromU64(Floor)) THEN Floor ELSE F64ToU64(video)

\* the bits per second that ffmpeg reads from a bitrate argument "<digits>k"
ArgumentNumber(arg) == DecToBig(SubSeq(arg, 1, Len(arg) - 1))
ArgumentIsKilo(arg) ==
    /\ Len(arg) >= 2
    /\ arg[Len(arg)] = "k"
    /\ \A i \in 1..(Len(arg) - 1) : IsDigit(arg[i])

AboveFloor(r) == r.ok /\ BigLt(Floor, r.val)

DurationOf(t) == ParseF64(t).val

----------------------------------------------------------------------------
(* The claims.                                                             *)

\* C1: for every duration > 0, every target_bytes and every audio_bitrate,
\* compute_video_bitrate returns a value, and it is at least 100,000.
C1_ResultAtLeastFloor ==
    (fn.called /\ Positive(fn.duration)) =>
        /\ fn.ra.ok /\ BigLe(Floor, fn.ra.val)
        /\ fn.rb.ok /\ BigLe(Floor, fn.rb.val)

\* C2: for every duration > 0 and positive u64 target_bytes and
\* audio_bitrate, compute_video_bitrate returns
\* max(target_bytes * 8 / duration - audio_bitrate, 100000) truncated, the
\* formula read in exact arithmetic or in f64 arithmetic on the product
\* target_bytes * 8.
C2_ReturnsFormula ==
    (/\ fn.called
     /\ Positive(fn.duration)
     /\ ~BigIsZero(fn.a)
     /\ ~BigIsZero(fn.audio)) =>
        /\ fn.ra.ok
        /\ \/ fn.ra.val = ExactBitrate(fn.duration, fn.a, fn.audio)
           \/ fn.ra.val = FloatBitrate(fn.duration, fn.a, fn.audio)

\* C3: with a size other than 50 or 100 the run ends with an error and
\* neither ffprobe nor ffmpeg is ever launched.
C3_InvalidSizeRejected ==
    (size # BigFromInt(50) /\ size # BigFromInt(100)) =>
        /\ probe_calls = 0
        /\ encode_calls = 0
        /\ running = {}
        /\ pc \in {"main", "exit"}
        /\ pc = "exit" => (exit_code # Some(0) /\ IsSome(error))

C3_Witness ==
    /\ size = BigFromInt(51)
    /\ pc = "exit"
    /\ exit_code = Some(ExitFailure)

\* C4: ffmpeg is launched only after ffprobe exited with success and printed
\* a number; after a failed probe the run ends with an error and ffmpeg is
\* never launched.
C4_EncoderOnlyAfterProbe ==
    /\ encode_calls > 0 =>
          /\ IsSome(output)
          /\ output[1].success
          /\ ParseF64(Trim(output[1].stdout)).ok
          /\ duration = Some(ParseF64(Trim(output[1].stdout)).val)
    /\ (IsSome(output) /\ (~output[1].success \/ ~ParseF64(Trim(output[1].stdout)).ok)) =>
          /\ encode_calls = 0
          /\ pc = "exit"
          /\ IsSome(exit_code)
          /\ exit_code # Some(0)

\* ffprobe exited with success and printed "N/A"
C4_Witness ==
    /\ IsSome(output)
    /\ output[1].success
    /\ output[1].stdout = <<"N", "/", "A", "\n">>
    /\ pc = "exit"
    /\ exit_code = Some(ExitFailure)
    /\ encode_calls = 0

\* C5: the exit code is 0 exactly when the size is 50 or 100, the probe
\* succeeded and ffmpeg exited with success.
C5_ExitCode ==
    pc = "exit" =>
        /\ IsSome(exit_code)
        /\ exit_code = Some(0) <=>
              /\ size = BigFromInt(50) \/ size = BigFromInt(100)
              /\ IsSome(output)
              /\ output[1].success
              /\ ParseF64(Trim(output[1].stdout)).ok
              /\ status = Some("success")

C5_Witness ==
    /\ pc = "exit"
    /\ exit_code = Some(0)
    /\ status = Some("success")

\* C6: the steps are probe, calculate, encode in this order, each at most
\* once and never two child processes at a time, nothing is retried, and
\* every run reaches exit.
C6_Sequential ==
    /\ [](/\ probe_calls <= 1
          /\ encode_calls <= 1
          /\ IsPrefix(steps, <<"probe", "calculate", "encode">>)
          /\ Cardinality(running) <= 1
          /\ pc = "calculate" => running = {}
          /\ pc = "exit" => running = {})
    /\ <>(pc = "exit")

C6_Witness ==
    /\ pc = "exit"
    /\ steps = <<"probe", "calculate", "encode">>
    /\ probe_calls = 1
    /\ encode_calls = 1

\* C7: with duration > 0 and audio_bitrate fixed, a < b and both results
\* above the floor, result(a) <= result(b), over all u64 target_bytes.
C7_Monotone ==
    (/\ fn.called
     /\ Positive(fn.duration)
     /\ BigLt(fn.a, fn.b)
     /\ AboveFloor(fn.ra)
     /\ AboveFloor(fn.rb)) => BigLe(fn.ra.val, fn.rb.val)

\* C8: when the probe returns a zero or negative duration, the run fails
\* with an error and ffmpeg is not launched.
C8_NonPositiveDurationFails ==
    (IsSome(duration) /\ NonPositive(duration[1])) =>
        /\ encode_calls = 0
        /\ pc = "exit" => exit_code # Some(0)

\* C9: the -b:v argument is video_bitrate / 1000 followed by "k"; with
\* duration > 0 its number is at least 100 and, times 1000, at most
\* video_bitrate; the -b:a argument 128k is the 128,000 of the calculation.
C9_BitrateArguments ==
    (IsSome(ffmpeg_args) /\ Positive(duration[1])) =>
        /\ ArgumentIsKilo(ffmpeg_args[1].bv)
        /\ BigLe(BigFromInt(100), ArgumentNumber(ffmpeg_args[1].bv))
        /\ BigLe(BigMulSmall(ArgumentNumber(ffmpeg_args[1].bv), 1000), video_bitrate[1])
        /\ BigLt(video_bitrate[1],
                 BigMulSmall(BigAdd(ArgumentNumber(ffmpeg_args[1].bv), <<1>>), 1000))
        /\ ArgumentIsKilo(ffmpeg_args[1].ba)
        /\ BigMulSmall(ArgumentNumber(ffmpeg_args[1].ba), 1000) = audio_bitrate[1]

\* 100 s and 100 MB: 8,260,608 bps, passed as 8260k
C9_Witness ==
    /\ IsSome(ffmpeg_args)
    /\ duration = Some(DurationOf(<<"1", "0", "0">>))
    /\ size = BigFromInt(100)
    /\ video_bitrate = Some(BigFromInt(8260608))
    /\ ffmpeg_args[1].bv = <<"8", "2", "6", "0", "k">>

\* C10: for duration > 0, a result above the floor keeps the planned size
\* within the target: (result + audio_bitrate) * duration <= target_bytes * 8.
C10_WithinTarget ==
    (fn.called /\ Positive(fn.duration)) =>
        /\ AboveFloor(fn.ra) =>
              WithinBudget(BigAdd(fn.ra.val, fn.audio), fn.duration, BigMulSmall(fn.a, 8), -1)
        /\ AboveFloor(fn.rb) =>
              WithinBudget(BigAdd(fn.rb.val, fn.audio), fn.duration, BigMulSmall(fn.b, 8), -1)

\* C10, amended: the planned size exceeds the target by at most the
\* rounding of the f64 operations:
\* (result + audio_bitrate) * duration <= target_bytes * 8 * (1 + 2^-51).
C10_WithinTargetUpToRounding ==
    (fn.called /\ Positive(fn.duration)) =>
        /\ AboveFloor(fn.ra) =>
              WithinBudget(BigAdd(fn.ra.val, fn.audio), fn.duration, BigMulSmall(fn.a, 8), 51)
        /\ AboveFloor(fn.rb) =>
              WithinBudget(BigAdd(fn.rb.val, fn.audio), fn.duration, BigMulSmall(fn.b, 8), 51)

\* 100 MB at 2796.1653844615407 s: the quotient rounds up to 300,004
C10_Witness ==
    /\ fn.called
    /\ fn.duration = DurationOf(<<"2", "7", "9", "6", ".", "1", "6", "5", "3", "8", "4",
                                  "4", "6", "1", "5", "4", "0", "7">>)
    /\ fn.a = Mib(100)
    /\ fn.audio = BigFromInt(AudioBitrate)
    /\ fn.ra = [ok |-> TRUE, val |-> BigFromInt(172004)]
    /\ ~WithinBudget(BigAdd(fn.ra.val, fn.audio), fn.duration, BigMulSmall(fn.a, 8), -1)

====
